---------------------------- MODULE Spec2Model ----------------------------
(***************************************************************************)
(* A model of the question/answer/tag server: the storage (the Question,   *)
(* Answer and Tag collections), the four request handlers (addQuestion,    *)
(* addAnswer, getQuestionById, getQuestions) as processes that yield at    *)
(* every await, and the question retrieval engine (search-term parser,     *)
(* strategy selector, tag resolver, query builder, ordering).              *)
(*                                                                         *)
(* Strings are sequences of one-character strings, so that split,          *)
(* startsWith, endsWith, slice, toLowerCase and the regular expressions    *)
(* built from the plain terms are computed character by character.         *)
(***************************************************************************)
EXTENDS Integers, Sequences, FiniteSets, TLC

VARIABLES questions, answers, tags, reqs

vars == <<questions, answers, tags, reqs>>

(***************************************************************************)
(* Bounds of the model.                                                    *)
(***************************************************************************)
MaxDate == 2
MaxRequests == 3
MaxTokens == 4
MaxSeedQuestions == 3

(***************************************************************************)
(* Generic helpers on sequences.                                           *)
(***************************************************************************)
Range(s) == {s[i] : i \in 1..Len(s)}

None == <<>>

Some(x) == <<x>>

\* the strings over a token vocabulary: up to n tokens joined by single spaces
RECURSIVE JoinSpace(_)
JoinSpace(ts) ==
  IF ts = <<>> THEN <<>>
  ELSE IF Len(ts) = 1 THEN ts[1]
  ELSE ts[1] \o <<" ">> \o JoinSpace(Tail(ts))

TokenSeqs(V, n) == UNION {[1..k -> V] : k \in 0..n}

(***************************************************************************)
(* String.prototype methods, character by character.                       *)
(***************************************************************************)
UpperLetters ==
  <<"A","B","C","D","E","F","G","H","I","J","K","L","M",
    "N","O","P","Q","R","S","T","U","V","W","X","Y","Z">>

LowerLetters ==
  <<"a","b","c","d","e","f","g","h","i","j","k","l","m",
    "n","o","p","q","r","s","t","u","v","w","x","y","z">>

ToLowerChar(c) ==
  IF \E i \in 1..Len(UpperLetters) : UpperLetters[i] = c
  THEN LowerLetters[CHOOSE i \in 1..Len(UpperLetters) : UpperLetters[i] = c]
  ELSE c

ToLowerCase(s) == [i \in 1..Len(s) |-> ToLowerChar(s[i])]

StartsWith(s, c) == Len(s) >= 1 /\ s[1] = c

EndsWith(s, c) == Len(s) >= 1 /\ s[Len(s)] = c

\* s.slice(1, -1)
Slice1(s) == IF Len(s) <= 2 THEN <<>> ELSE SubSeq(s, 2, Len(s) - 1)

\* s.split(' '): the pieces between single spaces, empty pieces kept
RECURSIVE SplitFrom(_, _, _)
SplitFrom(s, i, cur) ==
  IF i > Len(s) THEN <<cur>>
  ELSE IF s[i] = " " THEN <<cur>> \o SplitFrom(s, i + 1, <<>>)
  ELSE SplitFrom(s, i + 1, Append(cur, s[i]))

Split(s) == SplitFrom(s, 1, <<>>)

Includes(list, x) == \E i \in 1..Len(list) : list[i] = x

RECURSIVE FilterSeq(_, _)
FilterSeq(s, keep) ==
  IF s = <<>> THEN <<>>
  ELSE IF Head(s) \in keep THEN <<Head(s)>> \o FilterSeq(Tail(s), keep)
  ELSE FilterSeq(Tail(s), keep)

(***************************************************************************)
(* new RegExp(term, 'i') and its use in a query.  The characters of the    *)
(* model are letters, digits, the space and the two square brackets, so a  *)
(* pattern is a sequence of literal characters and character classes: '['  *)
(* opens a class that runs to the next ']' and a ']' outside a class is a  *)
(* literal.  A '[' without a closing ']' is a SyntaxError of the           *)
(* constructor.  A compiled pattern is the sequence of its character sets. *)
(***************************************************************************)
NextClose(term, i) ==
  IF \E j \in i..Len(term) : term[j] = "]"
  THEN CHOOSE j \in i..Len(term) :
         term[j] = "]" /\ \A k \in i..(j - 1) : term[k] # "]"
  ELSE 0

RECURSIVE CompileFrom(_, _)
CompileFrom(term, i) ==
  IF i > Len(term) THEN [ok |-> TRUE, elems |-> <<>>]
  ELSE IF term[i] = "["
  THEN LET j == NextClose(term, i + 1) IN
       IF j = 0 THEN [ok |-> FALSE, elems |-> <<>>]
       ELSE LET rest == CompileFrom(term, j + 1) IN
            [ok |-> rest.ok,
             elems |-> <<{ToLowerChar(term[k]) : k \in (i + 1)..(j - 1)}>>
                        \o rest.elems]
  ELSE LET rest == CompileFrom(term, i + 1) IN
       [ok |-> rest.ok, elems |-> <<{ToLowerChar(term[i])}>> \o rest.elems]

NewRegExp(term) == CompileFrom(term, 1)

\* regex.test(subject): an unanchored, case-insensitive match
RegExpTest(re, subject) ==
  \E p \in 1..(Len(subject) + 1) :
    /\ p + Len(re.elems) - 1 <= Len(subject)
    /\ \A k \in 1..Len(re.elems) :
         ToLowerChar(subject[p + k - 1]) \in re.elems[k]

(***************************************************************************)
(* SearchStrategyFactory: the parser, the special-case detector and the    *)
(* strategy selector.                                                      *)
(***************************************************************************)
IsTagToken(term) == StartsWith(term, "[") /\ EndsWith(term, "]")

RECURSIVE TagTermsOf(_)
TagTermsOf(searchTerms) ==
  IF searchTerms = <<>> THEN <<>>
  ELSE IF IsTagToken(Head(searchTerms))
  THEN <<ToLowerCase(Slice1(Head(searchTerms)))>> \o TagTermsOf(Tail(searchTerms))
  ELSE TagTermsOf(Tail(searchTerms))

RECURSIVE RegularTermsOf(_)
RegularTermsOf(searchTerms) ==
  IF searchTerms = <<>> THEN <<>>
  ELSE IF ~IsTagToken(Head(searchTerms))
  THEN <<ToLowerCase(Head(searchTerms))>> \o RegularTermsOf(Tail(searchTerms))
  ELSE RegularTermsOf(Tail(searchTerms))

parseSearchTerms(searchStr) ==
  LET searchTerms == Split(searchStr) IN
  [tagSearchTerms |-> TagTermsOf(searchTerms),
   regularSearchTerms |-> RegularTermsOf(searchTerms)]

W_40 == <<"4","0">>

W_million == <<"m","i","l","l","i","o","n">>

W_documents == <<"d","o","c","u","m","e","n","t","s">>

W_javascript == <<"j","a","v","a","s","c","r","i","p","t">>

\* faulty variant: 'javascript' is looked for among the plain terms
isSpecialSearch_PlainJavascript(regularSearchTerms, tagSearchTerms) ==
  /\ Includes(regularSearchTerms, W_40)
  /\ Includes(regularSearchTerms, W_million)
  /\ Includes(regularSearchTerms, W_documents)
  /\ Includes(regularSearchTerms, W_javascript)

isSpecialSearch(regularSearchTerms, tagSearchTerms) ==
  /\ Includes(regularSearchTerms, W_40)
  /\ Includes(regularSearchTerms, W_million)
  /\ Includes(regularSearchTerms, W_documents)
  /\ Includes(tagSearchTerms, W_javascript)

\* faulty variant: the special case is not detected
createStrategy_NoSpecial(search) ==
  IF search = None \/ search[1] = <<>>
  THEN [kind |-> "default", tagSearchTerms |-> <<>>, regularSearchTerms |-> <<>>]
  ELSE LET parsed == parseSearchTerms(search[1]) IN
       [kind |-> "regular",
        tagSearchTerms |-> parsed.tagSearchTerms,
        regularSearchTerms |-> parsed.regularSearchTerms]

\* search is None (absent) or Some(string); !search holds for both the absent
\* and the empty string
createStrategy(search) ==
  IF search = None \/ search[1] = <<>>
  THEN [kind |-> "default", tagSearchTerms |-> <<>>, regularSearchTerms |-> <<>>]
  ELSE LET parsed == parseSearchTerms(search[1]) IN
       IF isSpecialSearch(parsed.regularSearchTerms, parsed.tagSearchTerms)
       THEN [kind |-> "special", tagSearchTerms |-> <<>>, regularSearchTerms |-> <<>>]
       ELSE [kind |-> "regular",
             tagSearchTerms |-> parsed.tagSearchTerms,
             regularSearchTerms |-> parsed.regularSearchTerms]

(***************************************************************************)
(* Storage.  A collection is the sequence of its documents in insertion    *)
(* order and a document's _id is its index.  questions[i] has title, text, *)
(* ask_date_time, views, answers (answer ids) and tags (tag ids);          *)
(* answers[i] has ans_date_time; tags[i] is the tag's name.                *)
(*                                                                         *)
(* A find with its populate calls is one read of the storage.  A sort      *)
(* keeps documents with equal keys in the order in which find returned     *)
(* them.                                                                   *)
(***************************************************************************)
QuestionIds == 1..Len(questions)

\* Tag.find({ name: { $in: names } }): exact match on the stored name
TagFindByNames(tagDocs, names) ==
  FilterSeq([i \in 1..Len(tagDocs) |-> i],
            {i \in 1..Len(tagDocs) : Includes(names, tagDocs[i])})

\* faulty variant: a document is put before the documents with an equal key
RECURSIVE InsertDesc_TiesReversed(_, _, _)
InsertDesc_TiesReversed(sorted, x, key) ==
  IF sorted = <<>> THEN <<x>>
  ELSE IF key[Head(sorted)] > key[x]
  THEN <<Head(sorted)>> \o InsertDesc_TiesReversed(Tail(sorted), x, key)
  ELSE <<x>> \o sorted

\* stable sort of a sequence of ids, descending by key[id]
RECURSIVE InsertDesc(_, _, _)
InsertDesc(sorted, x, key) ==
  IF sorted = <<>> THEN <<x>>
  ELSE IF key[Head(sorted)] >= key[x]
  THEN <<Head(sorted)>> \o InsertDesc(Tail(sorted), x, key)
  ELSE <<x>> \o sorted

RECURSIVE SortDesc(_, _)
SortDesc(ids, key) ==
  IF ids = <<>> THEN <<>>
  ELSE InsertDesc(SortDesc(SubSeq(ids, 1, Len(ids) - 1), key), ids[Len(ids)], key)

MaxOf(S) == CHOOSE x \in S : \A y \in S : y <= x

\* faulty variant: the latest answer date is not compared with the question's
mostRecentActivity_LatestAnswer(q) ==
  IF ~(Len(q.answers) > 0) THEN q.ask_date_time
  ELSE MaxOf({answers[q.answers[i]].ans_date_time : i \in 1..Len(q.answers)})

\* the virtual property of a question whose answers are populated
mostRecentActivity(q) ==
  IF ~(Len(q.answers) > 0) THEN q.ask_date_time
  ELSE LET answerDates == {answers[q.answers[i]].ans_date_time : i \in 1..Len(q.answers)}
           latestAnswerDate == MaxOf(answerDates)
       IN IF latestAnswerDate > q.ask_date_time THEN latestAnswerDate
          ELSE q.ask_date_time

AskDateKey == [i \in QuestionIds |-> questions[i].ask_date_time]

ActivityKey == [i \in QuestionIds |-> mostRecentActivity(questions[i])]

\* whether a question document satisfies a query object
QueryMatches(q, query) ==
  /\ query.hasTags =>
       \E i \in 1..Len(q.tags) : Includes(query.tagIds, q.tags[i])
  /\ query.hasOr =>
       \/ \E k \in 1..Len(query.searchRegex) : RegExpTest(query.searchRegex[k], q.title)
       \/ \E k \in 1..Len(query.searchRegex) : RegExpTest(query.searchRegex[k], q.text)
  /\ query.sizeZero => Len(q.answers) = 0

\* Question.find(query): the matching ids in insertion order
QuestionFind(query) ==
  FilterSeq([i \in QuestionIds |-> i],
            {i \in QuestionIds : QueryMatches(questions[i], query)})

EmptyQuery ==
  [hasTags |-> FALSE, tagIds |-> <<>>, hasOr |-> FALSE, searchRegex |-> <<>>,
   sizeZero |-> FALSE]

\* faulty variant: the questions are returned unsorted
getNewestQuestions_Unsorted == QuestionFind(EmptyQuery)

getNewestQuestions == SortDesc(QuestionFind(EmptyQuery), AskDateKey)

\* faulty variant: the questions are not filtered on the number of answers
getUnansweredQuestions_Unfiltered == SortDesc(QuestionFind(EmptyQuery), AskDateKey)

getUnansweredQuestions ==
  SortDesc(QuestionFind([EmptyQuery EXCEPT !.sizeZero = TRUE]), AskDateKey)

\* faulty variant: the questions are sorted by their own date
getActiveQuestions_ByAskDate == SortDesc(QuestionFind(EmptyQuery), AskDateKey)

getActiveQuestions == SortDesc(QuestionFind(EmptyQuery), ActivityKey)

\* faulty variant: the order key is ignored
getQuestionsByOrder_IgnoresOrder(order) == getNewestQuestions

getQuestionsByOrder(order) ==
  CASE order = "newest" -> getNewestQuestions
    [] order = "unanswered" -> getUnansweredQuestions
    [] order = "active" -> getActiveQuestions
    [] OTHER -> getNewestQuestions

\* faulty variant: 'unanswered' does not filter on the number of answers
getQuestionsByQuery_UnansweredUnfiltered(query, order) ==
  CASE order = "active" -> SortDesc(QuestionFind(query), ActivityKey)
    [] OTHER -> SortDesc(QuestionFind(query), AskDateKey)

getQuestionsByQuery(query, order) ==
  CASE order = "active" -> SortDesc(QuestionFind(query), ActivityKey)
    [] order = "unanswered" ->
         SortDesc(QuestionFind([query EXCEPT !.sizeZero = TRUE]), AskDateKey)
    [] OTHER -> SortDesc(QuestionFind(query), AskDateKey)

\* Question.findOne({ title }): None, or Some(id) of the first such question
findQuestionByTitle(title) ==
  IF \E i \in QuestionIds : questions[i].title = title
  THEN Some(CHOOSE i \in QuestionIds :
              /\ questions[i].title = title
              /\ \A j \in 1..(i - 1) : questions[j].title # title)
  ELSE None

(***************************************************************************)
(* RegularSearchStrategy: the tag resolver and the query builder.          *)
(***************************************************************************)
\* faulty variant: no match is reported as 'no filter' instead of null
findTagIds_NoNull(tagSearchTerms) ==
  [isNull |-> FALSE, ids |-> TagFindByNames(tags, tagSearchTerms)]

\* faulty variant: null unless every tag term names a stored tag
findTagIds_AllOrNothing(tagSearchTerms) ==
  IF Len(tagSearchTerms) = 0 THEN [isNull |-> FALSE, ids |-> <<>>]
  ELSE LET matchingTags == TagFindByNames(tags, tagSearchTerms) IN
       IF \E k \in 1..Len(tagSearchTerms) : tagSearchTerms[k] \notin Range(tags)
       THEN [isNull |-> TRUE, ids |-> <<>>]
       ELSE [isNull |-> FALSE, ids |-> matchingTags]

\* null is [isNull |-> TRUE]
findTagIds(tagSearchTerms) ==
  IF Len(tagSearchTerms) = 0 THEN [isNull |-> FALSE, ids |-> <<>>]
  ELSE LET matchingTags == TagFindByNames(tags, tagSearchTerms) IN
       IF Len(matchingTags) = 0 THEN [isNull |-> TRUE, ids |-> <<>>]
       ELSE [isNull |-> FALSE, ids |-> matchingTags]

\* faulty variant: the tag filter is left out of the query
buildQuery_NoTagFilter(tagIds, regularSearchTerms) ==
  LET searchRegex == [k \in 1..Len(regularSearchTerms) |->
                        NewRegExp(regularSearchTerms[k])]
  IN [threw |-> \E k \in 1..Len(searchRegex) : ~searchRegex[k].ok,
      query |-> [hasTags |-> FALSE,
                 tagIds |-> tagIds.ids,
                 hasOr |-> Len(regularSearchTerms) > 0,
                 searchRegex |-> searchRegex,
                 sizeZero |-> FALSE]]

\* threw: the RegExp constructor raised a SyntaxError for one of the terms
buildQuery(tagIds, regularSearchTerms) ==
  LET searchRegex == [k \in 1..Len(regularSearchTerms) |->
                        NewRegExp(regularSearchTerms[k])]
  IN [threw |-> \E k \in 1..Len(searchRegex) : ~searchRegex[k].ok,
      query |-> [hasTags |-> ~tagIds.isNull /\ Len(tagIds.ids) > 0,
                 tagIds |-> tagIds.ids,
                 hasOr |-> Len(regularSearchTerms) > 0,
                 searchRegex |-> searchRegex,
                 sizeZero |-> FALSE]]

(***************************************************************************)
(* Requests.  reqs is the sequence of the requests received so far; each   *)
(* is a record with its handler (kind), its inputs, the values it holds    *)
(* across its awaits and its position pc.  A handler runs from one storage *)
(* operation to the next in one step: the storage executes one operation   *)
(* at a time and other requests run between two awaits of a handler.       *)
(***************************************************************************)
ReqIds == 1..Len(reqs)

At(r, kind, pc) == reqs[r].kind = kind /\ reqs[r].pc = pc

(***************************************************************************)
(* getQuestionById: Question.findByIdAndIncrementViews loads the document  *)
(* and incrementViews adds one to the loaded copy's views and saves it;    *)
(* save writes the modified path, views, as the loaded value plus one.     *)
(***************************************************************************)
FindById(qid) ==
  /\ reqs' = Append(reqs,
       IF qid \in QuestionIds
       THEN [kind |-> "getQuestionById", pc |-> "incrementViews", qid |-> qid,
             views |-> questions[qid].views, result |-> "pending"]
       ELSE [kind |-> "getQuestionById", pc |-> "done", qid |-> qid,
             views |-> 0, result |-> "null"])
  /\ UNCHANGED <<questions, answers, tags>>

SavedViews(loaded) == loaded + 1

\* faulty variant: save also writes the answers in the order of the sorted
\* populate, newest first
incrementViews_SavesSortedAnswers(r) ==
  /\ At(r, "getQuestionById", "incrementViews")
  /\ questions' =
       [questions EXCEPT
          ![reqs[r].qid].views = SavedViews(reqs[r].views),
          ![reqs[r].qid].answers =
             SortDesc(@, [a \in 1..Len(answers) |-> answers[a].ans_date_time])]
  /\ reqs' = [reqs EXCEPT ![r].pc = "done",
                          ![r].views = SavedViews(reqs[r].views),
                          ![r].result = "ok"]
  /\ UNCHANGED <<answers, tags>>

incrementViews(r) ==
  /\ At(r, "getQuestionById", "incrementViews")
  /\ questions' = [questions EXCEPT ![reqs[r].qid].views = SavedViews(reqs[r].views)]
  /\ reqs' = [reqs EXCEPT ![r].pc = "done",
                          ![r].views = SavedViews(reqs[r].views),
                          ![r].result = "ok"]
  /\ UNCHANGED <<answers, tags>>

(***************************************************************************)
(* addAnswer: AnswerRepository.addAnswer saves the new answer, then looks  *)
(* the question up, then pushes the answer id on its answers and saves.    *)
(***************************************************************************)
\* faulty variant: the answer is not saved before its id is handed on
SaveAnswer_NotSaved(qid, ans_date_time) ==
  /\ reqs' = Append(reqs, [kind |-> "addAnswer", pc |-> "findById", qid |-> qid,
                            aid |-> Len(answers) + 1, result |-> "pending"])
  /\ UNCHANGED <<questions, answers, tags>>

SaveAnswer(qid, ans_date_time) ==
  /\ answers' = Append(answers, [ans_date_time |-> ans_date_time])
  /\ reqs' = Append(reqs, [kind |-> "addAnswer", pc |-> "findById", qid |-> qid,
                            aid |-> Len(answers) + 1, result |-> "pending"])
  /\ UNCHANGED <<questions, tags>>

AddAnswerFindById(r) ==
  /\ At(r, "addAnswer", "findById")
  /\ reqs' = IF reqs[r].qid \in QuestionIds
             THEN [reqs EXCEPT ![r].pc = "addAnswer"]
             ELSE [reqs EXCEPT ![r].pc = "done", ![r].result = "null"]
  /\ UNCHANGED <<questions, answers, tags>>

\* faulty variant: the answer id is put at the front of the sequence
addAnswer_Prepend(r) ==
  /\ At(r, "addAnswer", "addAnswer")
  /\ questions' = [questions EXCEPT ![reqs[r].qid].answers = <<reqs[r].aid>> \o @]
  /\ reqs' = [reqs EXCEPT ![r].pc = "done", ![r].result = "ok"]
  /\ UNCHANGED <<answers, tags>>

addAnswer(r) ==
  /\ At(r, "addAnswer", "addAnswer")
  /\ questions' = [questions EXCEPT ![reqs[r].qid].answers = Append(@, reqs[r].aid)]
  /\ reqs' = [reqs EXCEPT ![r].pc = "done", ![r].result = "ok"]
  /\ UNCHANGED <<answers, tags>>

(***************************************************************************)
(* addQuestion: Tag.findOrCreateMany finds the existing tags among the     *)
(* distinct names, inserts the names it did not find, and the question is  *)
(* saved with the ids of both.                                             *)
(***************************************************************************)
\* [...new Set(tagNames)]
RECURSIVE UniqueNames(_)
UniqueNames(tagNames) ==
  IF tagNames = <<>> THEN <<>>
  ELSE LET init == UniqueNames(SubSeq(tagNames, 1, Len(tagNames) - 1))
           last == tagNames[Len(tagNames)]
       IN IF Includes(init, last) THEN init ELSE Append(init, last)

NewTagNames(tagDocs, uniqueTagNames) ==
  LET existingTags == TagFindByNames(tagDocs, uniqueTagNames)
      existingTagNames == [i \in 1..Len(existingTags) |-> tagDocs[existingTags[i]]]
  IN FilterSeq(uniqueTagNames,
               {n \in Range(uniqueTagNames) : ~Includes(existingTagNames, n)})

InsertedIds(tagDocs, newTagNames) ==
  [i \in 1..Len(newTagNames) |-> Len(tagDocs) + i]

NewQuestion(title, text, tagIds, ask_date_time) ==
  [title |-> title, text |-> text, ask_date_time |-> ask_date_time,
   views |-> 0, answers |-> <<>>, tags |-> tagIds]

FindExistingTags(in) ==
  LET uniqueTagNames == UniqueNames(in.tagNames)
      newTagNames == NewTagNames(tags, uniqueTagNames)
  IN /\ reqs' = Append(reqs,
          [kind |-> "addQuestion",
           pc |-> IF Len(newTagNames) > 0 THEN "insertMany" ELSE "save",
           title |-> in.title, text |-> in.text,
           ask_date_time |-> in.ask_date_time,
           newTagNames |-> newTagNames,
           tagIds |-> TagFindByNames(tags, uniqueTagNames),
           savedQuestion |-> 0, result |-> 0,
           error |-> FALSE, reported |-> None])
     /\ UNCHANGED <<questions, answers, tags>>

InsertManyTags(r) ==
  /\ At(r, "addQuestion", "insertMany")
  /\ tags' = tags \o reqs[r].newTagNames
  /\ reqs' = [reqs EXCEPT ![r].pc = "save",
                          ![r].tagIds = @ \o InsertedIds(tags, reqs[r].newTagNames)]
  /\ UNCHANGED <<questions, answers>>

\* await newQuestion.save(): the question is stored and the request goes on
\* to populate its tags
SaveQuestion(r) ==
  /\ At(r, "addQuestion", "save")
  /\ questions' = Append(questions,
       NewQuestion(reqs[r].title, reqs[r].text, reqs[r].tagIds, reqs[r].ask_date_time))
  /\ reqs' = [reqs EXCEPT ![r].pc = "populate",
                          ![r].savedQuestion = Len(questions) + 1]
  /\ UNCHANGED <<answers, tags>>

\* await savedQuestion.populate('tags'): the tags are read and the stored
\* question is the response
PopulateQuestion(r) ==
  /\ At(r, "addQuestion", "populate")
  /\ reqs' = [reqs EXCEPT ![r].pc = "done", ![r].result = reqs[r].savedQuestion]
  /\ UNCHANGED <<questions, answers, tags>>

\* the populate is rejected with e: the controller passes e to next and the
\* question stays stored
PopulateQuestionFails(r, e) ==
  /\ At(r, "addQuestion", "populate")
  /\ reqs' = [reqs EXCEPT ![r].pc = "done", ![r].error = TRUE,
                          ![r].reported = Some(e)]
  /\ UNCHANGED <<questions, answers, tags>>

(***************************************************************************)
(* getQuestions: SearchStrategyFactory.createStrategy picks the strategy   *)
(* and its execute runs.  calls lists the storage operations the request   *)
(* has issued, result is the list of question ids it returned and error    *)
(* tells that it ended with an exception raised by the engine.  thrown is  *)
(* the error with which a storage operation of the request was rejected    *)
(* and the number of the operation among calls; reported is the error the  *)
(* controller passed to next.                                              *)
(***************************************************************************)
\* the three titles of the special case: three distinct strings
Q1_DESC == <<"q","1">>

Q2_DESC == <<"q","2">>

Q3_DESC == <<"q","3">>

GetQuestionsReq(order, search) ==
  [kind |-> "getQuestions", pc |-> "done", order |-> order, search |-> search,
   strategy |-> createStrategy(search).kind, tagIds |-> <<>>, found |-> <<>>,
   calls |-> <<>>, result |-> <<>>, error |-> FALSE,
   thrown |-> None, reported |-> None]

\* DefaultSearchStrategy.execute
DefaultExecute(order, search) ==
  /\ createStrategy(search).kind = "default"
  /\ reqs' = Append(reqs,
       [GetQuestionsReq(order, search) EXCEPT
          !.calls = <<"Question.find">>,
          !.result = getQuestionsByOrder(order)])
  /\ UNCHANGED <<questions, answers, tags>>

\* SpecialSearchStrategy.execute: the three lookups, one await each
SpecialFindQ3(order, search) ==
  /\ createStrategy(search).kind = "special"
  /\ reqs' = Append(reqs,
       [GetQuestionsReq(order, search) EXCEPT
          !.pc = "q2",
          !.calls = <<"Question.findOne">>,
          !.found = findQuestionByTitle(Q3_DESC)])
  /\ UNCHANGED <<questions, answers, tags>>

SpecialFindQ2(r) ==
  /\ At(r, "getQuestions", "q2")
  /\ reqs' = [reqs EXCEPT ![r].pc = "q1",
                          ![r].calls = Append(@, "Question.findOne"),
                          ![r].found = @ \o findQuestionByTitle(Q2_DESC)]
  /\ UNCHANGED <<questions, answers, tags>>

\* faulty variant: the result lists the lookups in the order Q1, Q2, Q3
SpecialFindQ1_Q1First(r) ==
  /\ At(r, "getQuestions", "q1")
  /\ reqs' = [reqs EXCEPT ![r].pc = "done",
                          ![r].calls = Append(@, "Question.findOne"),
                          ![r].found = @ \o findQuestionByTitle(Q1_DESC),
                          ![r].result = findQuestionByTitle(Q1_DESC)
                                          \o findQuestionByTitle(Q2_DESC)
                                          \o findQuestionByTitle(Q3_DESC)]
  /\ UNCHANGED <<questions, answers, tags>>

SpecialFindQ1(r) ==
  /\ At(r, "getQuestions", "q1")
  /\ reqs' = [reqs EXCEPT ![r].pc = "done",
                          ![r].calls = Append(@, "Question.findOne"),
                          ![r].found = @ \o findQuestionByTitle(Q1_DESC),
                          ![r].result = reqs[r].found \o findQuestionByTitle(Q1_DESC)]
  /\ UNCHANGED <<questions, answers, tags>>

\* faulty variant: the tag terms are resolved with a find-or-create, which
\* stores a tag for every searched name that has none
RegularExecute_CreatesTags(order, search) ==
  LET strategy == createStrategy(search)
      created == NewTagNames(tags, UniqueNames(strategy.tagSearchTerms))
      ids == TagFindByNames(tags \o created, strategy.tagSearchTerms)
      built == buildQuery([isNull |-> FALSE, ids |-> ids], strategy.regularSearchTerms)
      req == GetQuestionsReq(order, search)
  IN /\ strategy.kind = "regular"
     /\ tags' = tags \o created
     /\ reqs' = Append(reqs,
          IF built.threw THEN [req EXCEPT !.error = TRUE]
          ELSE IF Len(strategy.tagSearchTerms) = 0
          THEN [req EXCEPT !.calls = <<"Question.find">>,
                           !.result = getQuestionsByQuery(built.query, order)]
          ELSE [req EXCEPT !.pc = "query", !.calls = <<"Tag.find">>, !.tagIds = ids])
     /\ UNCHANGED <<questions, answers>>

\* RegularSearchStrategy.execute up to its first await that follows a storage
\* operation: findTagIds (which reads the tags only when there are tag terms),
\* the null check and buildQuery
RegularExecute(order, search) ==
  LET strategy == createStrategy(search)
      tagIds == findTagIds(strategy.tagSearchTerms)
      built == buildQuery(tagIds, strategy.regularSearchTerms)
      lookup == IF Len(strategy.tagSearchTerms) = 0 THEN <<>> ELSE <<"Tag.find">>
      req == [GetQuestionsReq(order, search) EXCEPT !.calls = lookup]
  IN /\ strategy.kind = "regular"
     /\ reqs' = Append(reqs,
          IF tagIds.isNull THEN req
          ELSE IF built.threw THEN [req EXCEPT !.error = TRUE]
          ELSE IF Len(strategy.tagSearchTerms) = 0
          THEN [req EXCEPT !.calls = <<"Question.find">>,
                           !.result = getQuestionsByQuery(built.query, order)]
          ELSE [req EXCEPT !.pc = "query", !.tagIds = tagIds.ids])
     /\ UNCHANGED <<questions, answers, tags>>

\* questionRepository.getQuestionsByQuery(query, order)
RegularQuery(r) ==
  LET strategy == createStrategy(reqs[r].search)
      built == buildQuery([isNull |-> FALSE, ids |-> reqs[r].tagIds],
                          strategy.regularSearchTerms)
  IN /\ At(r, "getQuestions", "query")
     /\ reqs' = [reqs EXCEPT ![r].pc = "done",
                             ![r].calls = Append(@, "Question.find"),
                             ![r].result = getQuestionsByQuery(built.query, reqs[r].order)]
     /\ UNCHANGED <<questions, answers, tags>>

(***************************************************************************)
(* A storage operation of a getQuestions request that is rejected.  No     *)
(* strategy, nor the service, catches the rejection of an await: execute   *)
(* rejects with the error of the operation, and the controller passes the  *)
(* error it caught to next.  The request issues nothing after it.          *)
(***************************************************************************)
Rejected(req, call, e) ==
  [req EXCEPT !.pc = "done",
              !.calls = Append(@, call),
              !.thrown = Some([error |-> e, call |-> Len(req.calls) + 1]),
              !.error = TRUE,
              !.reported = Some(e)]

DefaultExecuteFails(order, search, e) ==
  /\ createStrategy(search).kind = "default"
  /\ reqs' = Append(reqs, Rejected(GetQuestionsReq(order, search), "Question.find", e))
  /\ UNCHANGED <<questions, answers, tags>>

SpecialFindQ3Fails(order, search, e) ==
  /\ createStrategy(search).kind = "special"
  /\ reqs' = Append(reqs, Rejected(GetQuestionsReq(order, search), "Question.findOne", e))
  /\ UNCHANGED <<questions, answers, tags>>

SpecialFindQ2Fails(r, e) ==
  /\ At(r, "getQuestions", "q2")
  /\ reqs' = [reqs EXCEPT ![r] = Rejected(@, "Question.findOne", e)]
  /\ UNCHANGED <<questions, answers, tags>>

SpecialFindQ1Fails(r, e) ==
  /\ At(r, "getQuestions", "q1")
  /\ reqs' = [reqs EXCEPT ![r] = Rejected(@, "Question.findOne", e)]
  /\ UNCHANGED <<questions, answers, tags>>

\* the first storage operation of RegularSearchStrategy.execute: the tag
\* lookup when there are tag terms, the query on the questions otherwise
\* (which is not reached when buildQuery throws)
RegularExecuteFails(order, search, e) ==
  LET strategy == createStrategy(search)
      built == buildQuery([isNull |-> FALSE, ids |-> <<>>], strategy.regularSearchTerms)
  IN /\ strategy.kind = "regular"
     /\ Len(strategy.tagSearchTerms) = 0 => ~built.threw
     /\ reqs' = Append(reqs,
          Rejected(GetQuestionsReq(order, search),
                   IF Len(strategy.tagSearchTerms) = 0 THEN "Question.find"
                   ELSE "Tag.find", e))
     /\ UNCHANGED <<questions, answers, tags>>

\* faulty variant: the rejection is caught and an empty list is returned
RegularQueryFails_EmptyResult(r, e) ==
  /\ At(r, "getQuestions", "query")
  /\ reqs' = [reqs EXCEPT ![r].pc = "done",
                          ![r].calls = Append(@, "Question.find"),
                          ![r].thrown = Some([error |-> e,
                                              call |-> Len(reqs[r].calls) + 1])]
  /\ UNCHANGED <<questions, answers, tags>>

RegularQueryFails(r, e) ==
  /\ At(r, "getQuestions", "query")
  /\ reqs' = [reqs EXCEPT ![r] = Rejected(@, "Question.find", e)]
  /\ UNCHANGED <<questions, answers, tags>>

(***************************************************************************)
(* The inputs of the model.                                                *)
(***************************************************************************)
W_react == <<"r","e","a","c","t">>

W_React == <<"R","e","a","c","t">>

W_REACT == <<"R","E","A","C","T">>

W_js == <<"j","s">>

W_nosuch == <<"n","o">>

W_Million == <<"M","i","l","l","i","o","n">>

W_JavaScript == <<"J","a","v","a","S","c","r","i","p","t">>

\* a word that is, as a pattern, 'q' followed by one of '1' and '2'
W_q12 == <<"q">> \o <<"[","1","2","]">>

Bracket(name) == <<"[">> \o name \o <<"]">>

Dates == 1..MaxDate

Orders == {"newest", "unanswered", "active", "bogus", "undefined"}

\* the requests of the concurrent specification
SpecQuestionInputs ==
  {[title |-> Q3_DESC, text |-> W_js, tagNames |-> names, ask_date_time |-> d] :
     names \in {<<W_react>>, <<W_React, W_React>>}, d \in {MaxDate}}

SpecOrders == {"active", "unanswered"}

\* the errors with which a storage operation is rejected
StorageErrors == {"MongoNetworkError", "MongoServerError"}

SpecSearches == {None, Some(Bracket(W_react))}

\* the search strings of the engine specification
EngineSearches ==
  {None} \cup
  {Some(JoinSpace(ts)) : ts \in
     {<<>>,
      <<Bracket(W_react)>>,
      <<Bracket(W_REACT)>>,
      <<Bracket(W_nosuch)>>,
      <<Bracket(W_nosuch), W_React>>,
      <<Bracket(W_react), Bracket(W_nosuch)>>,
      <<Bracket(W_nosuch), Bracket(W_js), Bracket(W_react)>>,
      <<Bracket(W_js), W_react>>,
      <<W_REACT>>,
      << <<"[">> >>,
      << <<"[">> \o W_js >>,
      <<Bracket(W_nosuch), <<"[">> >>,
      <<W_q12>>,
      <<Bracket(W_js), W_q12>>,
      <<W_40, W_million, W_documents, Bracket(W_javascript)>>,
      <<Bracket(W_JavaScript), W_documents, W_Million, Bracket(W_react), W_40>>}}

\* two words separated by a tab
TabToken == Bracket(W_js) \o <<"\t">> \o W_40

\* the search strings of the selector specification: every string of up to
\* MaxTokens tokens (the empty token gives leading, trailing and double spaces)
WideTokens ==
  {W_40, W_Million, W_documents, Bracket(W_JavaScript), W_javascript,
   Bracket(W_40), <<>>, TabToken}

WideSearches == {Some(JoinSpace(ts)) : ts \in TokenSeqs(WideTokens, MaxTokens)}

(***************************************************************************)
(* Storage states for the engine specifications: the storage after a       *)
(* sequence of addQuestion and addAnswer requests that ran one after the   *)
(* other.                                                                  *)
(***************************************************************************)
DbEmpty == [questions |-> <<>>, answers |-> <<>>, tags |-> <<>>]

\* addQuestion run to completion
DbAddQuestion(db, in) ==
  LET uniqueTagNames == UniqueNames(in.tagNames)
      existingTags == TagFindByNames(db.tags, uniqueTagNames)
      newTagNames == NewTagNames(db.tags, uniqueTagNames)
      tagIds == existingTags \o InsertedIds(db.tags, newTagNames)
  IN [db EXCEPT !.tags = @ \o newTagNames,
                !.questions = Append(@, NewQuestion(in.title, in.text, tagIds,
                                                    in.ask_date_time))]

\* addAnswer on an existing question run to completion
DbAddAnswer(db, qid, ans_date_time) ==
  [db EXCEPT !.answers = Append(@, [ans_date_time |-> ans_date_time]),
             !.questions[qid].answers = Append(@, Len(db.answers) + 1)]

RECURSIVE DbAddAnswers(_, _, _)
DbAddAnswers(db, qid, dates) ==
  IF dates = <<>> THEN db
  ELSE DbAddAnswers(DbAddAnswer(db, qid, Head(dates)), qid, Tail(dates))

RECURSIVE BuildDb(_)
BuildDb(seeds) ==
  IF seeds = <<>> THEN DbEmpty
  ELSE LET before == BuildDb(SubSeq(seeds, 1, Len(seeds) - 1))
           seed == seeds[Len(seeds)]
           added == DbAddQuestion(before, seed)
       IN DbAddAnswers(added, Len(added.questions), seed.answerDates)

SeedQuestions ==
  {[title |-> Q1_DESC, text |-> W_React, tagNames |-> <<W_react>>,
    ask_date_time |-> 1, answerDates |-> <<2>>],
   [title |-> Q2_DESC, text |-> W_js, tagNames |-> <<W_React, W_js>>,
    ask_date_time |-> 2, answerDates |-> <<>>],
   [title |-> Q3_DESC, text |-> W_js, tagNames |-> <<W_js>>,
    ask_date_time |-> 1, answerDates |-> <<>>],
   [title |-> Q3_DESC, text |-> W_react, tagNames |-> <<W_react, W_js>>,
    ask_date_time |-> 2, answerDates |-> <<1>>],
   [title |-> W_React, text |-> Q1_DESC, tagNames |-> <<W_js>>,
    ask_date_time |-> 1, answerDates |-> <<1, 3>>]}

SeedDbs == {BuildDb(seeds) : seeds \in TokenSeqs(SeedQuestions, MaxSeedQuestions)}

SelectSeed ==
  [title |-> Q1_DESC, text |-> W_js, tagNames |-> <<W_javascript>>,
   ask_date_time |-> 1, answerDates |-> <<>>]

(***************************************************************************)
(* The concurrent specification: the server starts on a storage that holds *)
(* one question, left by an earlier addQuestion, and requests of the four  *)
(* handlers arrive and interleave at their awaits.                         *)
(***************************************************************************)
InitFrom(db) ==
  /\ questions = db.questions
  /\ answers = db.answers
  /\ tags = db.tags
  /\ reqs = <<>>

SpecSeed ==
  [title |-> Q3_DESC, text |-> W_js, tagNames |-> <<W_js>>,
   ask_date_time |-> 1, answerDates |-> <<>>]

Init == InitFrom(BuildDb(<<SpecSeed>>))

ReceiveGetQuestionById ==
  /\ Len(reqs) < MaxRequests
  /\ \E qid \in QuestionIds \cup {0} : FindById(qid)

ReceiveAddAnswer ==
  /\ Len(reqs) < MaxRequests
  /\ \E qid \in QuestionIds \cup {0}, d \in Dates : SaveAnswer(qid, d)

ReceiveAddQuestion ==
  /\ Len(reqs) < MaxRequests
  /\ \E in \in SpecQuestionInputs : FindExistingTags(in)

Next ==
  \/ ReceiveGetQuestionById
  \/ \E r \in ReqIds : incrementViews(r)
  \/ ReceiveAddAnswer
  \/ \E r \in ReqIds : AddAnswerFindById(r)
  \/ \E r \in ReqIds : addAnswer(r)
  \/ ReceiveAddQuestion
  \/ \E r \in ReqIds : InsertManyTags(r)
  \/ \E r \in ReqIds : SaveQuestion(r)
  \/ \E r \in ReqIds : PopulateQuestion(r)
  \/ Len(reqs) < MaxRequests /\
       \E order \in SpecOrders, search \in SpecSearches : DefaultExecute(order, search)
  \/ Len(reqs) < MaxRequests /\
       \E order \in SpecOrders, search \in SpecSearches : RegularExecute(order, search)
  \/ \E r \in ReqIds : RegularQuery(r)

Spec == Init /\ [][Next]_vars

(***************************************************************************)
(* The engine specification: one getQuestions request on a storage drawn   *)
(* from SeedDbs.                                                           *)
(***************************************************************************)
InitEngine == \E db \in SeedDbs : InitFrom(db)

NextEngine ==
  \/ reqs = <<>> /\ \E order \in Orders, search \in EngineSearches :
                      DefaultExecute(order, search)
  \/ reqs = <<>> /\ \E order \in Orders, search \in EngineSearches :
                      SpecialFindQ3(order, search)
  \/ reqs = <<>> /\ \E order \in Orders, search \in EngineSearches :
                      RegularExecute(order, search)
  \/ \E r \in ReqIds : SpecialFindQ2(r)
  \/ \E r \in ReqIds : SpecialFindQ1(r)
  \/ \E r \in ReqIds : RegularQuery(r)

SpecEngine == InitEngine /\ [][NextEngine]_vars

(***************************************************************************)
(* The selector specification: one getQuestions request for every search   *)
(* string of WideSearches.                                                 *)
(***************************************************************************)
InitSelect == InitFrom(BuildDb(<<SelectSeed>>))

NextSelect ==
  \/ reqs = <<>> /\ \E search \in WideSearches : DefaultExecute("undefined", search)
  \/ reqs = <<>> /\ \E search \in WideSearches : SpecialFindQ3("undefined", search)
  \/ reqs = <<>> /\ \E search \in WideSearches : RegularExecute("undefined", search)
  \/ \E r \in ReqIds : SpecialFindQ2(r)
  \/ \E r \in ReqIds : SpecialFindQ1(r)
  \/ \E r \in ReqIds : RegularQuery(r)

SpecSelect == InitSelect /\ [][NextSelect]_vars

(***************************************************************************)
(* The failure specification: one request on a storage drawn from         *)
(* SeedDbs.  Each storage operation of a getQuestions request succeeds or  *)
(* is rejected with one of the errors of StorageErrors, and so does the    *)
(* populate that ends an addQuestion request.                              *)
(***************************************************************************)
InitFailure == \E db \in SeedDbs : InitFrom(db)

NextFailure ==
  \/ reqs = <<>> /\ \E order \in Orders, search \in EngineSearches :
                      DefaultExecute(order, search)
  \/ reqs = <<>> /\ \E order \in Orders, search \in EngineSearches :
                      SpecialFindQ3(order, search)
  \/ reqs = <<>> /\ \E order \in Orders, search \in EngineSearches :
                      RegularExecute(order, search)
  \/ \E r \in ReqIds : SpecialFindQ2(r)
  \/ \E r \in ReqIds : SpecialFindQ1(r)
  \/ \E r \in ReqIds : RegularQuery(r)
  \/ reqs = <<>> /\ \E order \in Orders, search \in EngineSearches, e \in StorageErrors :
                      DefaultExecuteFails(order, search, e)
  \/ reqs = <<>> /\ \E order \in Orders, search \in EngineSearches, e \in StorageErrors :
                      SpecialFindQ3Fails(order, search, e)
  \/ reqs = <<>> /\ \E order \in Orders, search \in EngineSearches, e \in StorageErrors :
                      RegularExecuteFails(order, search, e)
  \/ \E r \in ReqIds, e \in StorageErrors : SpecialFindQ2Fails(r, e)
  \/ \E r \in ReqIds, e \in StorageErrors : SpecialFindQ1Fails(r, e)
  \/ \E r \in ReqIds, e \in StorageErrors : RegularQueryFails(r, e)
  \/ reqs = <<>> /\ \E in \in SpecQuestionInputs : FindExistingTags(in)
  \/ \E r \in ReqIds : InsertManyTags(r)
  \/ \E r \in ReqIds : SaveQuestion(r)
  \/ \E r \in ReqIds : PopulateQuestion(r)
  \/ \E r \in ReqIds, e \in StorageErrors : PopulateQuestionFails(r, e)

SpecFailure == InitFailure /\ [][NextFailure]_vars

(***************************************************************************)
(* The answering specification: on a storage that holds two questions,     *)
(* addAnswer requests and getQuestions requests with the order key         *)
(* 'unanswered', on the three paths, arrive and interleave.                *)
(***************************************************************************)
AnsweredSeeds ==
  <<SpecSeed,
    [title |-> Q1_DESC, text |-> W_react, tagNames |-> <<W_react, W_js>>,
     ask_date_time |-> 2, answerDates |-> <<>>]>>

AnsweredSearches ==
  {None, Some(Bracket(W_js)), Some(W_react),
   Some(JoinSpace(<<W_40, W_million, W_documents, Bracket(W_javascript)>>))}

InitAnswered == InitFrom(BuildDb(AnsweredSeeds))

NextAnswered ==
  \/ ReceiveAddAnswer
  \/ \E r \in ReqIds : AddAnswerFindById(r)
  \/ \E r \in ReqIds : addAnswer(r)
  \/ Len(reqs) < MaxRequests /\
       \E search \in AnsweredSearches : DefaultExecute("unanswered", search)
  \/ Len(reqs) < MaxRequests /\
       \E search \in AnsweredSearches : SpecialFindQ3("unanswered", search)
  \/ Len(reqs) < MaxRequests /\
       \E search \in AnsweredSearches : RegularExecute("unanswered", search)
  \/ \E r \in ReqIds : SpecialFindQ2(r)
  \/ \E r \in ReqIds : SpecialFindQ1(r)
  \/ \E r \in ReqIds : RegularQuery(r)

SpecAnswered == InitAnswered /\ [][NextAnswered]_vars

(***************************************************************************)
(* Vocabulary of the properties.                                           *)
(***************************************************************************)
IsGetQuestions(r) == reqs[r].kind = "getQuestions"

Finished(r) == reqs[r].pc = "done"

ContainsSub(s, sub) ==
  \E p \in 1..(Len(s) + 1) :
    p + Len(sub) - 1 <= Len(s) /\ SubSeq(s, p, p + Len(sub) - 1) = sub

\* the lower-cased string between two spaces: a token t of the string has
\* lower-cased form w exactly when this contains " w "
Padded(s) == <<" ">> \o ToLowerCase(s) \o <<" ">>

HasToken(s, w) == ContainsSub(Padded(s), <<" ">> \o w \o <<" ">>)

\* the special case, read off the search string
SpecialString(s) ==
  /\ HasToken(s, W_40)
  /\ HasToken(s, W_million)
  /\ HasToken(s, W_documents)
  /\ HasToken(s, Bracket(W_javascript))

\* the lower-cased names asked for by the tag tokens of a search string, and
\* its lower-cased plain tokens
AskedTagNames(s) ==
  {ToLowerCase(Slice1(t)) : t \in {u \in Range(Split(s)) : IsTagToken(u)}}

AskedPlainTerms(s) ==
  {ToLowerCase(t) : t \in {u \in Range(Split(s)) : ~IsTagToken(u)}}

\* the question has a tag whose stored name is in names
TaggedWith(qid, names) ==
  \E i \in 1..Len(questions[qid].tags) : tags[questions[qid].tags[i]] \in names

\* the question has a tag whose stored name is in names, ignoring letter case
TaggedWithIgnoringCase(qid, names) ==
  \E i \in 1..Len(questions[qid].tags) :
    ToLowerCase(tags[questions[qid].tags[i]]) \in {ToLowerCase(n) : n \in names}

StoredTagNames == Range(tags)

(***************************************************************************)
(* C1 -- Every completed getQuestionById adds exactly one to the stored    *)
(* view counter: the views of a question equal the number of              *)
(* getQuestionById requests on it that have completed successfully (its    *)
(* views were 0 before them), whatever the interleaving.                   *)
(***************************************************************************)
C1_ViewsCountFetches ==
  \A q \in QuestionIds :
    questions[q].views =
      Cardinality({r \in ReqIds : /\ reqs[r].kind = "getQuestionById"
                                  /\ reqs[r].qid = q
                                  /\ reqs[r].result = "ok"})

(***************************************************************************)
(* C2 -- The stored view counter of a question never decreases in a step.  *)
(***************************************************************************)
C2_ViewsNeverDecrease ==
  [][\A q \in QuestionIds : questions'[q].views >= questions[q].views]_vars

(***************************************************************************)
(* C3 -- No two Tag records have the same name.                            *)
(***************************************************************************)
C3_TagNamesUnique ==
  \A i, j \in 1..Len(tags) : i # j => tags[i] # tags[j]

(***************************************************************************)
(* C4 -- getQuestions accepts every search string: a request never ends    *)
(* with an error raised by the engine, also when a token is a lone '[' or  *)
(* another unmatched bracket (which is a plain term).                      *)
(***************************************************************************)
C4_EverySearchAccepted ==
  \A r \in ReqIds : IsGetQuestions(r) /\ Finished(r) => ~reqs[r].error

(***************************************************************************)
(* C5 -- A non-special search with at least one tag term, none of which is *)
(* the name of a stored tag, returns the empty list for every order key,   *)
(* also when its plain terms match questions.                              *)
(***************************************************************************)
NoSuchTagSearch(r) ==
  /\ IsGetQuestions(r)
  /\ reqs[r].search # None
  /\ ~SpecialString(reqs[r].search[1])
  /\ AskedTagNames(reqs[r].search[1]) # {}
  /\ AskedTagNames(reqs[r].search[1]) \cap StoredTagNames = {}

C5_NoSuchTagYieldsEmpty ==
  \A r \in ReqIds :
    NoSuchTagSearch(r) =>
      /\ Finished(r)
      /\ reqs[r].result = <<>>
      /\ ~reqs[r].error
      /\ reqs[r].calls = <<"Tag.find">>

\* such a request whose plain terms alone match a stored question
C5_Witness ==
  \E r \in ReqIds :
    /\ NoSuchTagSearch(r)
    /\ Finished(r)
    /\ reqs[r].order = "active"
    /\ \E q \in QuestionIds, t \in AskedPlainTerms(reqs[r].search[1]) :
         NewRegExp(t).ok /\ RegExpTest(NewRegExp(t), questions[q].text)

(***************************************************************************)
(* C6 -- A partial match is not 'no such tag': when at least one tag term  *)
(* of a non-special search is the name of a stored tag, the resolver       *)
(* returns exactly the ids of the stored tags named by the tag terms, and  *)
(* a search without plain terms returns exactly the questions tagged with  *)
(* one of them (under order 'unanswered', those of them without answers).  *)
(***************************************************************************)
SomeTagSearch(r) ==
  /\ IsGetQuestions(r)
  /\ reqs[r].search # None
  /\ ~SpecialString(reqs[r].search[1])
  /\ AskedTagNames(reqs[r].search[1]) \cap StoredTagNames # {}

C6_PartialMatchResolves ==
  \A r \in ReqIds :
    SomeTagSearch(r) /\ ~reqs[r].error =>
      LET names == AskedTagNames(reqs[r].search[1]) IN
      /\ Range(reqs[r].tagIds) = {i \in 1..Len(tags) : tags[i] \in names}
      /\ Finished(r) /\ AskedPlainTerms(reqs[r].search[1]) = {} =>
           Range(reqs[r].result) =
             {q \in QuestionIds :
                /\ TaggedWith(q, names)
                /\ reqs[r].order = "unanswered" => Len(questions[q].answers) = 0}

\* a search with a tag term that names no stored tag and one that does,
\* which returned questions
C6_Witness ==
  \E r \in ReqIds :
    /\ SomeTagSearch(r)
    /\ Finished(r)
    /\ AskedTagNames(reqs[r].search[1]) \ StoredTagNames # {}
    /\ AskedPlainTerms(reqs[r].search[1]) = {}
    /\ reqs[r].result # <<>>

(***************************************************************************)
(* C7 -- Tag lookup ignores letter case: a search made of one tag term     *)
(* returns (under order 'newest') every question that has a tag whose      *)
(* stored name equals the term ignoring case.                              *)
(***************************************************************************)
C7_TagLookupIgnoresCase ==
  \A r \in ReqIds :
    /\ IsGetQuestions(r) /\ Finished(r) /\ reqs[r].order = "newest"
    /\ reqs[r].search # None
    /\ reqs[r].search[1] \in {Bracket(W_react), Bracket(W_REACT)}
    => \A q \in QuestionIds :
         TaggedWithIgnoringCase(q, {W_react}) => q \in Range(reqs[r].result)

(***************************************************************************)
(* C8 -- A request with a non-empty search string takes the special path   *)
(* exactly when the string has tokens that are, lower-cased, '40',         *)
(* 'million', 'documents' and '[javascript]' (in any order, with           *)
(* duplicates and other tokens allowed), and the filtered path otherwise.  *)
(***************************************************************************)
C8_SpecialSelection ==
  \A r \in ReqIds :
    IsGetQuestions(r) /\ reqs[r].search # None /\ reqs[r].search[1] # <<>> =>
      /\ reqs[r].strategy = "special" <=> SpecialString(reqs[r].search[1])
      /\ reqs[r].strategy = "regular" <=> ~SpecialString(reqs[r].search[1])
      /\ reqs[r].strategy = "special" => reqs[r].calls[1] = "Question.findOne"
      /\ reqs[r].strategy = "regular" =>
           \A i \in 1..Len(reqs[r].calls) : reqs[r].calls[i] # "Question.findOne"

\* a special request whose string is not the four lower-case tokens in order
C8_Witness ==
  \E r \in ReqIds :
    /\ IsGetQuestions(r)
    /\ reqs[r].strategy = "special"
    /\ reqs[r].search[1] =
         JoinSpace(<<Bracket(W_JavaScript), W_documents, W_40, W_Million>>)

(***************************************************************************)
(* C9 -- The special path returns, for every order key, the questions      *)
(* found by exact title among the three fixed titles, in the order Q3, Q2,  *)
(* Q1, a title that no stored question has being omitted: at most three    *)
(* questions, no other question, and no error.                             *)
(***************************************************************************)
TitleRank(title) ==
  CASE title = Q3_DESC -> 1 [] title = Q2_DESC -> 2 [] title = Q1_DESC -> 3
    [] OTHER -> 0

C9_SpecialResult ==
  \A r \in ReqIds :
    IsGetQuestions(r) /\ reqs[r].search # None /\ SpecialString(reqs[r].search[1])
    /\ Finished(r) =>
      LET res == reqs[r].result
          title(i) == questions[res[i]].title
      IN /\ ~reqs[r].error
         /\ Len(res) <= 3
         /\ \A i \in 1..Len(res) : title(i) \in {Q1_DESC, Q2_DESC, Q3_DESC}
         /\ \A i, j \in 1..Len(res) : i < j => TitleRank(title(i)) < TitleRank(title(j))
         /\ \A t \in {Q1_DESC, Q2_DESC, Q3_DESC} :
              (\E q \in QuestionIds : questions[q].title = t)
                <=> (\E i \in 1..Len(res) : title(i) = t)

\* a special request with order 'unanswered' that returned three questions,
\* one of them answered
C9_Witness ==
  \E r \in ReqIds :
    /\ IsGetQuestions(r) /\ reqs[r].strategy = "special" /\ Finished(r)
    /\ reqs[r].order = "unanswered"
    /\ Len(reqs[r].result) = 3
    /\ \E i \in 1..3 : Len(questions[reqs[r].result[i]].answers) > 0

(***************************************************************************)
(* C10 -- A request whose search is the special case issues the three      *)
(* title lookups and nothing else: no tag lookup and no predicate query,   *)
(* at any point of the request.                                            *)
(***************************************************************************)
C10_SpecialShortCircuits ==
  \A r \in ReqIds :
    IsGetQuestions(r) /\ reqs[r].search # None /\ SpecialString(reqs[r].search[1]) =>
      /\ \A i \in 1..Len(reqs[r].calls) : reqs[r].calls[i] = "Question.findOne"
      /\ Len(reqs[r].calls) <= 3
      /\ Finished(r) => Len(reqs[r].calls) = 3

\* a finished special request one of whose tag terms names a stored tag
C10_Witness ==
  \E r \in ReqIds :
    /\ IsGetQuestions(r) /\ Finished(r)
    /\ reqs[r].search # None /\ SpecialString(reqs[r].search[1])
    /\ AskedTagNames(reqs[r].search[1]) \cap StoredTagNames # {}

(***************************************************************************)
(* Vocabulary of the ordering properties.                                  *)
(***************************************************************************)
NoDuplicates(res) == \A i, j \in 1..Len(res) : i # j => res[i] # res[j]

\* res lists every member of S once and nothing else
ListsExactly(res, S) == Range(res) = S /\ NoDuplicates(res)

CreatedAt(q) == questions[q].ask_date_time

AnswerDatesOf(q) ==
  {answers[questions[q].answers[i]].ans_date_time :
     i \in 1..Len(questions[q].answers)}

\* the latest of the question's creation and its answers' creations
ActivityAt(q) == MaxOf({CreatedAt(q)} \cup AnswerDatesOf(q))

Unanswered(q) == Len(questions[q].answers) = 0

NewestFirst(res) ==
  \A i \in 1..(Len(res) - 1) : CreatedAt(res[i]) >= CreatedAt(res[i + 1])

MostActiveFirst(res) ==
  \A i \in 1..(Len(res) - 1) : ActivityAt(res[i]) >= ActivityAt(res[i + 1])

\* what the ordering engine returns for a set S of matching questions
OrderedResult(res, S, order) ==
  CASE order = "unanswered" ->
         ListsExactly(res, {q \in S : Unanswered(q)}) /\ NewestFirst(res)
    [] order = "active" -> ListsExactly(res, S) /\ MostActiveFirst(res)
    [] OTHER -> ListsExactly(res, S) /\ NewestFirst(res)

NoSearch(r) == reqs[r].search = None \/ reqs[r].search[1] = <<>>

(***************************************************************************)
(* C11 -- A getQuestions request without a search string runs the default  *)
(* path: it issues one query on the questions, no tag lookup and no title  *)
(* lookup, and returns all questions ordered by the requested order key    *)
(* (for 'unanswered', those without answers).                              *)
(***************************************************************************)
C11_DefaultPath ==
  \A r \in ReqIds :
    IsGetQuestions(r) /\ NoSearch(r) =>
      /\ Finished(r)
      /\ ~reqs[r].error
      /\ reqs[r].strategy = "default"
      /\ reqs[r].calls = <<"Question.find">>
      /\ OrderedResult(reqs[r].result, QuestionIds, reqs[r].order)

\* a request without search string and with order 'active' whose result is
\* not in the order of creation
C11_Witness ==
  \E r \in ReqIds :
    /\ IsGetQuestions(r) /\ reqs[r].search = None /\ Finished(r)
    /\ reqs[r].order = "active"
    /\ Len(reqs[r].result) >= 2
    /\ ~NewestFirst(reqs[r].result)

(***************************************************************************)
(* Vocabulary of the parser properties: the tokens of a string are its     *)
(* maximal runs of characters other than the space and the tab.            *)
(***************************************************************************)
Whitespace == {" ", "\t"}

RECURSIVE TokensFrom(_, _, _)
TokensFrom(s, i, cur) ==
  IF i > Len(s) THEN (IF cur = <<>> THEN <<>> ELSE <<cur>>)
  ELSE IF s[i] \in Whitespace
  THEN (IF cur = <<>> THEN <<>> ELSE <<cur>>) \o TokensFrom(s, i + 1, <<>>)
  ELSE TokensFrom(s, i + 1, Append(cur, s[i]))

Tokens(s) == TokensFrom(s, 1, <<>>)

Bracketed(t) == Len(t) >= 1 /\ t[1] = "[" /\ t[Len(t)] = "]"

Unbracketed(t) == SubSeq(t, 2, Len(t) - 1)

\* the number of positions of P up to i
Rank(P, i) == Cardinality({j \in P : j <= i})

HasSearch(r) == IsGetQuestions(r) /\ ~NoSearch(r)

(***************************************************************************)
(* C12 -- The parser puts every token of the search string in exactly one  *)
(* of its two output sequences, in token order: the bracketed tokens,      *)
(* without their brackets and lower-cased, are the tag terms, the other    *)
(* tokens, lower-cased, are the plain terms, and the two sequences         *)
(* together have as many elements as the string has tokens.                *)
(***************************************************************************)
C12_ParserPartitionsTokens ==
  \A r \in ReqIds :
    HasSearch(r) =>
      LET toks == Tokens(reqs[r].search[1])
          parsed == parseSearchTerms(reqs[r].search[1])
          tagPos == {i \in 1..Len(toks) : Bracketed(toks[i])}
          plainPos == {i \in 1..Len(toks) : ~Bracketed(toks[i])}
      IN /\ Len(parsed.tagSearchTerms) + Len(parsed.regularSearchTerms) = Len(toks)
         /\ Len(parsed.tagSearchTerms) = Cardinality(tagPos)
         /\ Len(parsed.regularSearchTerms) = Cardinality(plainPos)
         /\ \A i \in tagPos :
              parsed.tagSearchTerms[Rank(tagPos, i)] = ToLowerCase(Unbracketed(toks[i]))
         /\ \A i \in plainPos :
              parsed.regularSearchTerms[Rank(plainPos, i)] = ToLowerCase(toks[i])

(***************************************************************************)
(* C13 -- The parser splits on whitespace: no parsed term is empty or      *)
(* contains a space or a tab, and a string parses to the same terms as     *)
(* its tokens joined by single spaces ('a  b' parses as 'a b').            *)
(***************************************************************************)
C13_SplitsOnWhitespace ==
  \A r \in ReqIds :
    HasSearch(r) =>
      LET parsed == parseSearchTerms(reqs[r].search[1])
          terms == parsed.tagSearchTerms \o parsed.regularSearchTerms
      IN /\ \A k \in 1..Len(parsed.regularSearchTerms) :
              parsed.regularSearchTerms[k] # <<>>
         /\ \A k \in 1..Len(terms) : Range(terms[k]) \cap Whitespace = {}
         /\ parsed = parseSearchTerms(JoinSpace(Tokens(reqs[r].search[1])))

(***************************************************************************)
(* Vocabulary of the filter properties.  The tag clause of a request is    *)
(* about the tag identifiers its resolver returned; the text clause is     *)
(* about the plain tokens of its search string.                            *)
(***************************************************************************)
TagTokens(s) == {t \in Range(Tokens(s)) : Bracketed(t)}

PlainTokens(s) == {t \in Range(Tokens(s)) : ~Bracketed(t)}

\* a finished search on the filtered path that resolved at least one tag
ResolvedSearch(r) ==
  /\ HasSearch(r) /\ Finished(r) /\ ~reqs[r].error
  /\ reqs[r].strategy = "regular"
  /\ reqs[r].tagIds # <<>>

\* the question's tag set intersects the resolved identifiers
TagClause(r, q) == Range(questions[q].tags) \cap Range(reqs[r].tagIds) # {}

(***************************************************************************)
(* C14 -- A search made of tag terms only, at least one of which names a   *)
(* stored tag, returns under order 'newest' exactly the questions whose    *)
(* tag set intersects the resolved tag identifiers: each of them once and  *)
(* no other question.                                                      *)
(***************************************************************************)
C14_TagOnlyPredicate ==
  \A r \in ReqIds :
    /\ ResolvedSearch(r)
    /\ PlainTokens(reqs[r].search[1]) = {}
    /\ reqs[r].order = "newest"
    => ListsExactly(reqs[r].result, {q \in QuestionIds : TagClause(r, q)})

\* such a search that resolved one tag, returned a question with two tags
\* and left a question out
C14_Witness ==
  \E r \in ReqIds :
    /\ ResolvedSearch(r)
    /\ PlainTokens(reqs[r].search[1]) = {}
    /\ reqs[r].order = "newest"
    /\ Len(reqs[r].tagIds) = 1
    /\ \E i \in 1..Len(reqs[r].result) : Len(questions[reqs[r].result[i]].tags) = 2
    /\ \E q \in QuestionIds : q \notin Range(reqs[r].result)

\* the title or the body of the question contains one of the plain tokens of
\* the search string as a literal substring, ignoring letter case
TextClause(r, q) ==
  \E t \in PlainTokens(reqs[r].search[1]) :
    \/ ContainsSub(ToLowerCase(questions[q].title), ToLowerCase(t))
    \/ ContainsSub(ToLowerCase(questions[q].text), ToLowerCase(t))

(***************************************************************************)
(* C15 -- A search made of plain terms only returns (under order 'newest') *)
(* a question if and only if its title or its body contains, ignoring      *)
(* letter case, at least one of the plain terms as a literal substring.    *)
(***************************************************************************)
C15_TextOnlyPredicate ==
  \A r \in ReqIds :
    /\ HasSearch(r) /\ Finished(r)
    /\ reqs[r].strategy = "regular"
    /\ TagTokens(reqs[r].search[1]) = {}
    /\ reqs[r].order = "newest"
    => \A q \in QuestionIds : q \in Range(reqs[r].result) <=> TextClause(r, q)

(***************************************************************************)
(* C16 -- A search with tag terms, at least one of which names a stored    *)
(* tag, and plain terms returns a question if and only if the question     *)
(* satisfies both the tag clause and the text clause (for every order key  *)
(* but 'unanswered', which filters further): a question that satisfies     *)
(* only one of the two is not returned.                                    *)
(***************************************************************************)
C16_ClausesConjoined ==
  \A r \in ReqIds :
    /\ ResolvedSearch(r)
    /\ PlainTokens(reqs[r].search[1]) # {}
    /\ reqs[r].order # "unanswered"
    => \A q \in QuestionIds :
         q \in Range(reqs[r].result) <=> TagClause(r, q) /\ TextClause(r, q)

(***************************************************************************)
(* The predicate a request hands to the ordering engine: the unconditional *)
(* one on the default path, the query of the query builder on the filtered *)
(* path.  A request whose tag terms resolved to nothing hands over none.   *)
(***************************************************************************)
PredicateOf(r) ==
  IF reqs[r].strategy = "default" THEN EmptyQuery
  ELSE buildQuery([isNull |-> FALSE, ids |-> reqs[r].tagIds],
                  createStrategy(reqs[r].search).regularSearchTerms).query

Matching(r) == {q \in QuestionIds : QueryMatches(questions[q], PredicateOf(r))}

\* a finished request that went through the ordering engine
Ordered(r) ==
  /\ IsGetQuestions(r) /\ Finished(r) /\ ~reqs[r].error
  /\ reqs[r].calls # <<>>
  /\ reqs[r].calls[Len(reqs[r].calls)] = "Question.find"

(***************************************************************************)
(* C17 -- For the order key 'newest', an absent order key and an order key *)
(* that is not recognized, on the default path and on the filtered path,   *)
(* the result is all questions matching the predicate, each once, sorted   *)
(* by creation timestamp descending.                                       *)
(***************************************************************************)
C17_NewestOrder ==
  \A r \in ReqIds :
    Ordered(r) /\ reqs[r].order \in {"newest", "undefined", "bogus"} =>
      /\ ListsExactly(reqs[r].result, Matching(r))
      /\ NewestFirst(reqs[r].result)

\* a filtered request with an unrecognized order key that left a question
\* out and whose result is not in the order of insertion
C17_Witness ==
  \E r \in ReqIds :
    /\ Ordered(r)
    /\ reqs[r].order = "bogus" /\ reqs[r].strategy = "regular"
    /\ Len(reqs[r].result) >= 2
    /\ reqs[r].result[1] > reqs[r].result[2]
    /\ \E q \in QuestionIds : q \notin Range(reqs[r].result)

(***************************************************************************)
(* C18 -- For the order key 'unanswered' the result is exactly the         *)
(* questions that match the predicate and have no answer, each once,       *)
(* sorted by creation timestamp descending.                                *)
(***************************************************************************)
C18_UnansweredOrder ==
  \A r \in ReqIds :
    Ordered(r) /\ reqs[r].order = "unanswered" =>
      /\ ListsExactly(reqs[r].result, {q \in Matching(r) : Unanswered(q)})
      /\ NewestFirst(reqs[r].result)

\* a tag search of which three questions match, two of them unanswered, and
\* the newer of the two was inserted last
C18_Witness ==
  \E r \in ReqIds :
    /\ Ordered(r) /\ reqs[r].order = "unanswered"
    /\ reqs[r].strategy = "regular" /\ reqs[r].tagIds # <<>>
    /\ Cardinality(Matching(r)) = 3
    /\ Len(reqs[r].result) = 2
    /\ reqs[r].result[1] > reqs[r].result[2]
    /\ CreatedAt(reqs[r].result[1]) > CreatedAt(reqs[r].result[2])

(***************************************************************************)
(* C19 -- For the order key 'active' the result is every question that     *)
(* matches the predicate, answered or not, each once, sorted by activity   *)
(* timestamp descending.                                                   *)
(***************************************************************************)
C19_ActiveOrder ==
  \A r \in ReqIds :
    Ordered(r) /\ reqs[r].order = "active" =>
      /\ ListsExactly(reqs[r].result, Matching(r))
      /\ MostActiveFirst(reqs[r].result)

\* an older question with a more recent answer is listed before a newer
\* question without answers
C19_Witness ==
  \E r \in ReqIds :
    /\ Ordered(r) /\ reqs[r].order = "active"
    /\ \E i, j \in 1..Len(reqs[r].result) :
         LET a == reqs[r].result[i]
             b == reqs[r].result[j]
         IN /\ i < j
            /\ CreatedAt(a) < CreatedAt(b)
            /\ ~Unanswered(a) /\ Unanswered(b)
            /\ ActivityAt(a) > ActivityAt(b)

(***************************************************************************)
(* C20 -- In every reachable state and for every question, the activity    *)
(* timestamp used by the 'active' ordering is the maximum of the           *)
(* question's creation timestamp and the creation timestamps of its        *)
(* answers: it is the creation timestamp when the question has no answer   *)
(* and it is never earlier than the creation timestamp.                    *)
(***************************************************************************)
C20_ActivityTimestamp ==
  \A q \in QuestionIds :
    /\ ActivityKey[q] = MaxOf({CreatedAt(q)} \cup AnswerDatesOf(q))
    /\ Unanswered(q) => ActivityKey[q] = CreatedAt(q)
    /\ ActivityKey[q] >= CreatedAt(q)

\* a question all of whose answers are dated before it, listed by a request
\* with order 'active'
C20_Witness ==
  \E q \in QuestionIds, r \in ReqIds :
    /\ ~Unanswered(q)
    /\ \A d \in AnswerDatesOf(q) : d < CreatedAt(q)
    /\ IsGetQuestions(r) /\ Finished(r) /\ reqs[r].order = "active"
    /\ q \in Range(reqs[r].result)

(***************************************************************************)
(* C21 -- Under the order key 'active' the sort is stable: of two          *)
(* questions with equal activity timestamps, the one that comes first in   *)
(* the retrieved sequence (the one stored first) comes first in the        *)
(* result.                                                                 *)
(***************************************************************************)
C21_ActiveSortStable ==
  \A r \in ReqIds :
    Ordered(r) /\ reqs[r].order = "active" =>
      \A i, j \in 1..Len(reqs[r].result) :
        LET a == reqs[r].result[i]
            b == reqs[r].result[j]
        IN a < b /\ ActivityAt(a) = ActivityAt(b) => i < j

\* two questions with equal activity timestamps of which the one retrieved
\* first is the older
C21_Witness ==
  \E r \in ReqIds :
    /\ Ordered(r) /\ reqs[r].order = "active"
    /\ \E i, j \in 1..Len(reqs[r].result) :
         LET a == reqs[r].result[i]
             b == reqs[r].result[j]
         IN /\ i < j /\ a < b
            /\ ActivityAt(a) = ActivityAt(b)
            /\ CreatedAt(a) < CreatedAt(b)

(***************************************************************************)
(* Vocabulary of the properties of steps.  A request is received in a step *)
(* when it is new in reqs', and it finishes in a step when it is done      *)
(* after the step and was not before.                                      *)
(***************************************************************************)
Received(r) == r = Len(reqs) + 1 /\ Len(reqs') = Len(reqs) + 1

FinishesNow(r) ==
  /\ r \in 1..Len(reqs')
  /\ reqs'[r].pc = "done"
  /\ r \in ReqIds => reqs[r].pc # "done"

\* the request completed before the step
CompletedAddAnswer(m) ==
  m \in ReqIds /\ reqs[m].kind = "addAnswer" /\ reqs[m].result = "ok"

CompletedAddQuestion(m) ==
  /\ m \in ReqIds /\ reqs[m].kind = "addQuestion" /\ reqs[m].pc = "done"
  /\ ~reqs[m].error

\* a getQuestions request with order 'active' that finishes in the step
\* returns a list sorted by activity timestamps that count every answer
\* whose addAnswer has completed
ActivityRecomputed ==
  \A r \in 1..Len(reqs') :
    /\ FinishesNow(r)
    /\ reqs'[r].kind = "getQuestions" /\ reqs'[r].order = "active"
    /\ ~reqs'[r].error
    => /\ MostActiveFirst(reqs'[r].result)
       /\ \A m \in ReqIds :
            CompletedAddAnswer(m) =>
              reqs[m].aid \in Range(questions[reqs[m].qid].answers)

\* a search received in the step resolves every tag, of a question whose
\* addQuestion has completed, that one of its tag terms names (ignoring
\* letter case)
TagsResolvable ==
  \A r \in 1..Len(reqs') :
    /\ Received(r)
    /\ reqs'[r].kind = "getQuestions" /\ reqs'[r].strategy = "regular"
    /\ ~reqs'[r].error
    => \A m \in ReqIds :
         CompletedAddQuestion(m) =>
           \A i \in 1..Len(reqs[m].tagIds) :
             LET t == reqs[m].tagIds[i] IN
             ToLowerCase(tags[t]) \in AskedTagNames(reqs'[r].search[1])
               => t \in Range(reqs'[r].tagIds)

(***************************************************************************)
(* C22 -- Nothing is cached between requests: a getQuestions request with  *)
(* order 'active' that runs after an addAnswer has completed ranks the     *)
(* questions by activity timestamps that count the added answer, and a     *)
(* search that runs after an addQuestion has completed resolves the tags   *)
(* of that question.                                                       *)
(***************************************************************************)
C22_NothingCached == [][ActivityRecomputed /\ TagsResolvable]_vars

\* the half of it about the activity timestamps alone
C22_ActivityPart == [][ActivityRecomputed]_vars

\* the addAnswer requests that complete in the step
AddAnswerCompletes(m) ==
  FinishesNow(m) /\ reqs'[m].kind = "addAnswer" /\ reqs'[m].result = "ok"

(***************************************************************************)
(* C23 -- The answers sequence of a question changes only by appending:    *)
(* a step in which an addAnswer(q, a) completes puts the one new id a at   *)
(* the end of q's sequence and keeps the ids that were there, in their     *)
(* order, and every other step, and every step for every other question,   *)
(* leaves the sequence as it is.                                           *)
(***************************************************************************)
C23_AnswersAppendOnly ==
  [][/\ Len(questions') >= Len(questions)
     /\ \A q \in QuestionIds :
          IF \E m \in ReqIds : AddAnswerCompletes(m) /\ reqs[m].qid = q
          THEN \E m \in ReqIds :
                 /\ AddAnswerCompletes(m) /\ reqs[m].qid = q
                 /\ reqs[m].aid \notin Range(questions[q].answers)
                 /\ questions'[q].answers = Append(questions[q].answers, reqs[m].aid)
          ELSE questions'[q].answers = questions[q].answers]_vars

\* two addAnswer and a getQuestionById have completed on one question; the
\* addAnswer received second completed first and its answer is stored first
C23_Witness ==
  \E q \in QuestionIds, m1, m2, g \in ReqIds :
    /\ m1 # m2
    /\ CompletedAddAnswer(m1) /\ reqs[m1].qid = q
    /\ CompletedAddAnswer(m2) /\ reqs[m2].qid = q
    /\ reqs[g].kind = "getQuestionById" /\ reqs[g].qid = q /\ reqs[g].result = "ok"
    /\ questions[q].answers = <<reqs[m2].aid, reqs[m1].aid>>
    /\ m1 < m2

\* the step receives a getQuestions request or takes one further
GetQuestionsStep ==
  \E r \in 1..Len(reqs') :
    /\ reqs'[r].kind = "getQuestions"
    /\ r \in ReqIds => reqs'[r] # reqs[r]

(***************************************************************************)
(* C24 -- getQuestions is read-only: every step of a getQuestions request, *)
(* for every order key and every search string, on the default, the        *)
(* special and the filtered path, leaves the Question, Answer and Tag      *)
(* records as they are; in particular it stores no tag.                    *)
(***************************************************************************)
C24_GetQuestionsReadOnly ==
  [][GetQuestionsStep =>
       /\ questions' = questions
       /\ answers' = answers
       /\ tags' = tags]_vars

\* a finished search on the filtered path one of whose tag terms names no
\* stored tag and another a stored one
C24_Witness ==
  \E r \in ReqIds :
    /\ SomeTagSearch(r) /\ Finished(r)
    /\ reqs[r].calls = <<"Tag.find", "Question.find">>
    /\ \E n \in AskedTagNames(reqs[r].search[1]) : n \notin StoredTagNames

\* a storage operation of the request was rejected
ReadFailed(r) == IsGetQuestions(r) /\ reqs[r].thrown # None

(***************************************************************************)
(* C25 -- If a storage read of a getQuestions request fails, the request   *)
(* fails with the error of that read: the read is not retried, it is the   *)
(* last storage operation of the request, and the request returns no       *)
(* list, empty or partial.                                                 *)
(***************************************************************************)
C25_ReadFailurePropagates ==
  \A r \in ReqIds :
    ReadFailed(r) =>
      /\ Finished(r)
      /\ reqs[r].error
      /\ reqs[r].reported = Some(reqs[r].thrown[1].error)
      /\ Len(reqs[r].calls) = reqs[r].thrown[1].call
      /\ reqs[r].result = <<>>

\* the third title lookup of a special request failed after the first two
\* had found their questions
C25_Witness ==
  \E r \in ReqIds :
    /\ ReadFailed(r)
    /\ reqs[r].thrown[1].call = 3
    /\ Len(reqs[r].found) = 2

\* the step receives request m or takes it further
StepOf(m) == m \in 1..Len(reqs') /\ (m \in ReqIds => reqs'[m] # reqs[m])

(***************************************************************************)
(* C26 -- An addAnswer request whose qid matches no question returns null  *)
(* and leaves the storage unchanged: none of its steps creates an Answer   *)
(* record or modifies a question.                                          *)
(***************************************************************************)
C26_AddAnswerUnknownQuestion ==
  [][\A m \in 1..Len(reqs') :
       /\ StepOf(m)
       /\ reqs'[m].kind = "addAnswer"
       /\ reqs'[m].qid \notin QuestionIds
       => /\ answers' = answers
          /\ questions' = questions
          /\ tags' = tags
          /\ reqs'[m].pc = "done" => reqs'[m].result = "null"]_vars

(***************************************************************************)
(* C27 -- A step of a getQuestionById(qid) request changes nothing in the  *)
(* storage but the view counter of the question with that id: its title,   *)
(* text, tags and the stored order of its answers, every other question,   *)
(* the answers and the tags stay as they are; when no question has the id  *)
(* the request returns null and the storage is unchanged.                  *)
(***************************************************************************)
C27_GetQuestionByIdFrame ==
  [][\A m \in 1..Len(reqs') :
       StepOf(m) /\ reqs'[m].kind = "getQuestionById" =>
         LET qid == reqs'[m].qid IN
         /\ answers' = answers
         /\ tags' = tags
         /\ Len(questions') = Len(questions)
         /\ \A q \in QuestionIds :
              IF q = qid
              THEN questions'[q] = [questions[q] EXCEPT !.views = questions'[q].views]
              ELSE questions'[q] = questions[q]
         /\ qid \notin QuestionIds =>
              /\ questions' = questions
              /\ reqs'[m].pc = "done" /\ reqs'[m].result = "null"]_vars

\* a completed getQuestionById on a question whose answers are stored oldest
\* first
C27_Witness ==
  \E g \in ReqIds, q \in QuestionIds :
    /\ reqs[g].kind = "getQuestionById" /\ reqs[g].qid = q /\ reqs[g].result = "ok"
    /\ questions[q].views >= 1
    /\ Len(questions[q].answers) = 2
    /\ answers[questions[q].answers[1]].ans_date_time
         < answers[questions[q].answers[2]].ans_date_time

(***************************************************************************)
(* C28 -- Referential integrity: in every reachable state each answer id   *)
(* in a question's answers is the id of a stored Answer, no answer id      *)
(* occurs in two questions or twice in one, and each tag id of a question  *)
(* is the id of a stored Tag.                                              *)
(***************************************************************************)
C28_ReferentialIntegrity ==
  /\ \A q \in QuestionIds :
       /\ Range(questions[q].answers) \subseteq 1..Len(answers)
       /\ NoDuplicates(questions[q].answers)
       /\ Range(questions[q].tags) \subseteq 1..Len(tags)
  /\ \A p, q \in QuestionIds :
       p # q => Range(questions[p].answers) \cap Range(questions[q].answers) = {}

\* two answered questions, one of them stored by an addQuestion request that
\* created its tag
C28_Witness ==
  \E p, q \in QuestionIds, m \in ReqIds :
    /\ p # q
    /\ ~Unanswered(p) /\ ~Unanswered(q)
    /\ CompletedAddQuestion(m) /\ reqs[m].result = q
    /\ reqs[m].newTagNames # <<>>

\* a getQuestions request with order 'unanswered' that finishes in the step
\* without error
UnansweredFinishes(r) ==
  /\ FinishesNow(r)
  /\ reqs'[r].kind = "getQuestions" /\ reqs'[r].order = "unanswered"
  /\ ~reqs'[r].error

\* no question on which an addAnswer has completed is in the result
NoAnsweredIn(res) ==
  \A m \in ReqIds : CompletedAddAnswer(m) => reqs[m].qid \notin Range(res)

(***************************************************************************)
(* C29 -- Being answered is permanent: once an addAnswer on a question q   *)
(* has completed, q is in the result of no getQuestions request with the   *)
(* order key 'unanswered' that finishes later, for every search string.    *)
(***************************************************************************)
C29_AnsweredIsPermanent ==
  [][\A r \in 1..Len(reqs') :
       UnansweredFinishes(r) => NoAnsweredIn(reqs'[r].result)]_vars

(***************************************************************************)
(* C29, amended -- Once an addAnswer on a question q has completed, q is   *)
(* in the result of no getQuestions request with the order key             *)
(* 'unanswered' that finishes later, for every search string but the       *)
(* special case, whose result does not depend on the order key.            *)
(***************************************************************************)
C29_AnsweredIsPermanentButSpecial ==
  [][\A r \in 1..Len(reqs') :
       /\ UnansweredFinishes(r)
       /\ reqs'[r].search = None \/ ~SpecialString(reqs'[r].search[1])
       => NoAnsweredIn(reqs'[r].result)]_vars

\* a finished search with order 'unanswered' that left out a question that
\* matches its predicate and on which an addAnswer has completed
C29_Witness ==
  \E r, m \in ReqIds :
    /\ CompletedAddAnswer(m)
    /\ Ordered(r) /\ reqs[r].order = "unanswered"
    /\ reqs[r].strategy = "regular"
    /\ reqs[m].qid \in Matching(r)
    /\ reqs[m].qid \notin Range(reqs[r].result)
    /\ reqs[r].result # <<>>

(***************************************************************************)
(* C30 -- The two ordering implementations agree: for every order key and  *)
(* every storage state, getQuestionsByOrder(order) returns the sequence of *)
(* questions that getQuestionsByQuery returns for the empty query and the  *)
(* same order key, and so does every request served on the default path.   *)
(***************************************************************************)
C30_OrderingsAgree ==
  /\ \A order \in Orders :
       getQuestionsByOrder(order) = getQuestionsByQuery(EmptyQuery, order)
  /\ \A r \in ReqIds :
       IsGetQuestions(r) /\ Finished(r) /\ reqs[r].strategy = "default" =>
         reqs[r].result = getQuestionsByQuery(EmptyQuery, reqs[r].order)

\* a default-path request with order 'unanswered' served on a storage where
\* the three orders give three different sequences
C30_Witness ==
  \E r \in ReqIds :
    /\ IsGetQuestions(r) /\ Finished(r) /\ reqs[r].strategy = "default"
    /\ reqs[r].order = "unanswered"
    /\ reqs[r].result # <<>>
    /\ reqs[r].result # getQuestionsByQuery(EmptyQuery, "newest")
    /\ getQuestionsByQuery(EmptyQuery, "active")
         # getQuestionsByQuery(EmptyQuery, "newest")

=============================================================================
